---- MODULE Spec2Model ----
(***************************************************************************)
(* State-machine model of the query orchestration pipeline of HackRx:      *)
(* QueryEngine (app/services/query_engine.py), the chunker and downloader  *)
(* of DocumentProcessor (app/services/document_processor.py) and the       *)
(* retrying generator of LLMService (app/services/llm_service.py).         *)
(*                                                                         *)
(* Every process_query call is an asyncio coroutine: the code between two  *)
(* awaits runs atomically on the event loop, so each action below is one   *)
(* such segment, from the completion of an awaited backend call up to the  *)
(* next await (or the return).                                             *)
(***************************************************************************)
EXTENDS Naturals, Sequences, FiniteSets, TLC

(* ------------------------------ bounds --------------------------------- *)
\* number of questions the process_query calls ask in total
MaxQuestions == 3

(* ------------------------- program constants --------------------------- *)
CHUNK_SIZE == 400
CHUNK_OVERLAP == 50
MAX_FILE_SIZE_MB == 10
TOP_K == 2
\* stop_after_attempt(5) of the retry decorator of generate_answer
MaxAttempts == 5

max_file_size_bytes == MAX_FILE_SIZE_MB * 1024 * 1024

(* ------------------------------ inputs --------------------------------- *)
\* the process_query calls the serving boundary issues, in order of arrival
Calls == {1, 2}
URLs == {"http://h/policy.pdf", "http://h/empty.txt"}
Questions == {"What is X?", "what is x"}
QuestionLists == UNION {[1..n -> Questions] : n \in 1..MaxQuestions}

\* the sum of f over the set S
RECURSIVE SumOver(_, _)
SumOver(f, S) ==
  IF S = {} THEN 0
  ELSE LET c == CHOOSE x \in S : TRUE IN f[c] + SumOver(f, S \ {c})

\* Python's None
None == "<None>"

Min(a, b) == IF a <= b THEN a ELSE b

\* urlparse(url).path.split('/')[-1].lower()
Filename(u) == IF u = "http://h/policy.pdf" THEN "policy.pdf" ELSE "empty.txt"

\* the words of the cleaned text a document extracts to; a word is
\* identified by its position in the text
DocLen(u) == IF u = "http://h/policy.pdf" THEN 850 ELSE 0
DocWords(u) == [i \in 1..DocLen(u) |-> i]

\* the HTTP responses the remote server may give: the document with an
\* accurate content-length header, an HTTP error, a redirect (the client is
\* built without follow_redirects, so the 301 is the response), and a body
\* over the size limit announced by its header
Responses ==
  { [status |-> 200, has_length |-> TRUE, content_length |-> 4096, size |-> 4096],
    [status |-> 404, has_length |-> TRUE, content_length |-> 0, size |-> 0],
    [status |-> 301, has_length |-> TRUE, content_length |-> 10, size |-> 10],
    [status |-> 200, has_length |-> TRUE,
     content_length |-> max_file_size_bytes + 1,
     size |-> max_file_size_bytes + 1] }

(* --------------------------- pure functions ---------------------------- *)

\* DocumentProcessor.download_document: the body of the response, or the
\* exception raised
download_document(resp) ==
  IF resp.status < 200 \/ resp.status > 299
    THEN [ok |-> FALSE, error |-> "HTTPStatusError"]
  ELSE LET content_length == IF resp.has_length THEN resp.content_length ELSE 0
       IN IF content_length > max_file_size_bytes
            THEN [ok |-> FALSE, error |-> "File size exceeds maximum allowed size"]
            ELSE [ok |-> TRUE, size |-> resp.size]

\* the document type process_document derives from the file name
DocType(filename) ==
  IF filename = "policy.pdf" THEN "pdf" ELSE "text"

\* mutant of chunk_loop: chunk_index is the offset of the window, not the
\* number of chunks emitted before
RECURSIVE chunk_loop_offset(_, _, _, _, _, _)
chunk_loop_offset(words, metadata, size, overlap, i, chunks) ==
  IF i >= Len(words) THEN chunks
  ELSE LET chunk_words == SubSeq(words, i + 1, Min(i + size, Len(words)))
           chunk == [content |-> chunk_words,
                     metadata |-> [chunk_index |-> i,
                                   start_word |-> i,
                                   end_word |-> Min(i + size, Len(words))]
                                  @@ metadata,
                     embedding |-> None]
       IN chunk_loop_offset(words, metadata, size, overlap, i + (size - overlap),
                            IF chunk_words # <<>> THEN Append(chunks, chunk) ELSE chunks)

\* the loop of create_chunks: i runs over range(0, len(words), size - overlap)
RECURSIVE chunk_loop(_, _, _, _, _, _)
chunk_loop(words, metadata, size, overlap, i, chunks) ==
  IF i >= Len(words) THEN chunks
  ELSE LET chunk_words == SubSeq(words, i + 1, Min(i + size, Len(words)))
           chunk == [content |-> chunk_words,
                     metadata |-> [chunk_index |-> Len(chunks),
                                   start_word |-> i,
                                   end_word |-> Min(i + size, Len(words))]
                                  @@ metadata,
                     embedding |-> None]
       IN chunk_loop(words, metadata, size, overlap, i + (size - overlap),
                     IF chunk_words # <<>> THEN Append(chunks, chunk) ELSE chunks)

\* mutant of create_chunks_with: the window advances by chunk_size, the
\* overlap is ignored
create_chunks_with_no_overlap(words, metadata, size, overlap) ==
  chunk_loop(words, metadata, size, 0, 0, <<>>)

\* DocumentProcessor.create_chunks with the given chunk_size / chunk_overlap
create_chunks_with(words, metadata, size, overlap) ==
  chunk_loop(words, metadata, size, overlap, 0, <<>>)

\* mutant of create_chunks: the window advances by chunk_size, without overlap
create_chunks_no_overlap(words, metadata) ==
  create_chunks_with(words, metadata, CHUNK_SIZE, 0)

\* DocumentProcessor.create_chunks as configured
create_chunks(words, metadata) ==
  create_chunks_with(words, metadata, CHUNK_SIZE, CHUNK_OVERLAP)

\* LLMService._parse_response on the content of a chat completion
\* (only the answer field is read by the query engine)
parse_response(content) ==
  IF content.json
    THEN IF content.has_answer THEN [answer |-> content.text]
                               ELSE [answer |-> None]
    ELSE [answer |-> content.text]

\* dict.get('answer', 'Unable to generate answer') of _process_single_question
get_answer(llm_response) ==
  IF "answer" \in DOMAIN llm_response THEN llm_response.answer
  ELSE "Unable to generate answer"

\* the chat completions one generator attempt may receive
Completions ==
  { [json |-> TRUE, has_answer |-> TRUE, text |-> "a1"],
    [json |-> TRUE, has_answer |-> FALSE, text |-> ""] }

(* ------------------------------ state ---------------------------------- *)
VARIABLES
  hashseed,        \* the interpreter's string-hash seed (fixed per process)
  document_cache,  \* QueryEngine.document_cache: url -> {chunks, processed_at}
  answer_cache,    \* QueryEngine.answer_cache: hash(question) -> answer
  index,           \* the chunks held by the vector store, in order of addition
  now,             \* the wall clock: the number of readings taken of it
  pc,              \* per call: the await it is suspended at
  url,             \* per call: document_url
  questions,       \* per call: questions
  chunks,          \* per call: the local chunks of _ensure_document_processed
  answers,         \* per call: the local answers of process_query
  attempt,         \* per call: number of the generator attempt in flight
  result,          \* per call: the returned list, None before the return
  ingest_steps,    \* history, per call: the ingestion steps it has started
  failure,         \* history, per call: the exception its ingestion raised
  hit_at_start,    \* history, per call: was url cached when the call began
  prior,           \* history, per call: the calls that had ended when it began
  trace,           \* history, per call and answered position: how it resolved
  answered,        \* history, per question string: the answers returned for it
  earlier,         \* history, per call: answered[q] when its current question q began
  stored_for,      \* history, per cache key: the question its answer was stored for
  overwritten,     \* history, per cache key: was an answer stored over another
  stored_url,      \* history, per cache key: document_url of the call that stored its answer
  arg,             \* the arguments of a direct call of a DocumentProcessor method
  ret              \* what that call returned or raised, once it has

vars == <<hashseed, document_cache, answer_cache, index, now, pc, url,
          questions, chunks, answers, attempt, result, ingest_steps,
          failure, hit_at_start, prior, trace, answered, earlier,
          stored_for, overwritten, stored_url, arg, ret>>

\* the state shared by all calls, and the inputs and history of the calls
engine == <<document_cache, index, now>>
direct == <<arg, ret>>
inputs == <<hashseed, direct, url, questions, hit_at_start, prior>>
stores == <<answer_cache, stored_for, overwritten, stored_url>>
history == <<trace, answered, earlier>>

\* hash(question): under seed 0 the two questions get distinct hashes, under
\* seed 1 they collide (the hash maps all strings onto 64 bits)
HashSeeds == {0, 1}
HashKeys == {"h1", "h2"}
hash(q) ==
  IF hashseed = 1 THEN "h1"
  ELSE IF q = "What is X?" THEN "h1" ELSE "h2"

EngineInit ==
  /\ hashseed \in HashSeeds
  /\ document_cache = <<>>
  /\ answer_cache = <<>>
  /\ index = <<>>
  /\ now = 0
  /\ pc = [c \in Calls |-> "idle"]
  /\ url = [c \in Calls |-> None]
  /\ questions = [c \in Calls |-> <<>>]
  /\ chunks = [c \in Calls |-> <<>>]
  /\ answers = [c \in Calls |-> <<>>]
  /\ attempt = [c \in Calls |-> 0]
  /\ result = [c \in Calls |-> None]
  /\ ingest_steps = [c \in Calls |-> {}]
  /\ failure = [c \in Calls |-> None]
  /\ stored_for = [k \in HashKeys |-> None]
  /\ overwritten = [k \in HashKeys |-> FALSE]
  /\ stored_url = [k \in HashKeys |-> None]
  /\ hit_at_start = [c \in Calls |-> FALSE]
  /\ prior = [c \in Calls |-> {}]
  /\ trace = [c \in Calls |-> <<>>]
  /\ answered = [q \in Questions |-> {}]
  /\ earlier = [c \in Calls |-> {}]

\* the query engine as constructed; no method of DocumentProcessor is called
\* from outside it
Init == EngineInit /\ arg = [method |-> None] /\ ret = [returned |-> FALSE]

(* --------------------- the question loop of process_query -------------- *)

\* how a position of the answer list was resolved (history): the question,
\* the answer, where it came from, the backends called, and the answers that
\* had been returned for the same question string when this call of
\* _process_single_question began
Entry(q, answer, src, backends, before) ==
  [q |-> q, answer |-> answer, src |-> src, backends |-> backends,
   earlier |-> before]

\* an answer _process_single_question returned (history): the string, and
\* whether the except branch returned it
Returned(answer, src) == [answer |-> answer, error |-> src = "error"]

\* The for loop of process_query from the next unanswered question on, up to
\* the first await: a question whose hash is in the answer cache is answered
\* from the cache without suspending; the first one that is not suspends the
\* call in the embedding request; past the last question the call returns.
\* ansd is the history of the answers returned, per question string.
RECURSIVE question_loop(_, _, _, _, _)
question_loop(qs, ans, tr, cache, ansd) ==
  IF Len(ans) = Len(qs)
    THEN [pc |-> "done", answers |-> ans, trace |-> tr, answered |-> ansd,
          earlier |-> {}]
  ELSE LET question == qs[Len(ans) + 1]
           cache_key == hash(question)
       IN IF cache_key \in DOMAIN cache
            THEN question_loop(qs, Append(ans, cache[cache_key]),
                               Append(tr, Entry(question, cache[cache_key], "cache",
                                                {}, ansd[question])),
                               cache,
                               [ansd EXCEPT ![question] =
                                  @ \cup {Returned(cache[cache_key], "cache")}])
            ELSE [pc |-> "q_embed", answers |-> ans, trace |-> tr,
                  answered |-> ansd, earlier |-> ansd[question]]

\* call c, asked qs, goes on with the question loop, having answers ans,
\* under the answer cache and the history of answers as this step leaves them
Resume(c, qs, ans, tr, cache, ansd) ==
  LET r == question_loop(qs, ans, tr, cache, ansd)
  IN /\ pc' = [pc EXCEPT ![c] = r.pc]
     /\ answers' = [answers EXCEPT ![c] = r.answers]
     /\ trace' = [trace EXCEPT ![c] = r.trace]
     /\ answered' = r.answered
     /\ earlier' = [earlier EXCEPT ![c] = r.earlier]
     /\ result' = [result EXCEPT ![c] = IF r.pc = "done" THEN r.answers ELSE None]
     /\ attempt' = [attempt EXCEPT ![c] = 0]

\* mutant of fallback_answers: a single fallback string whatever was asked
fallback_answers_single(qs, e) ==
  <<"Error processing question: " \o e>>

\* the except branch of process_query: one fallback string per question
fallback_answers(qs, e) ==
  [i \in 1..Len(qs) |-> "Error processing question: " \o e]

\* an exception e of the ingestion reaches the except branch of process_query
Fail(c, e) ==
  /\ pc' = [pc EXCEPT ![c] = "done"]
  /\ result' = [result EXCEPT ![c] = fallback_answers(questions[c], e)]
  /\ failure' = [failure EXCEPT ![c] = e]
  /\ chunks' = [chunks EXCEPT ![c] = <<>>]
  /\ UNCHANGED <<answers, history, attempt>>

(* ------------------------------ ingestion ------------------------------ *)

\* mutant of document_cached: the cache test never hits
document_cached_never(u) == FALSE

\* the cache test of _ensure_document_processed
document_cached(u) == u \in DOMAIN document_cache

\* the number of questions asked by the calls made so far
Asked == SumOver([c \in Calls |-> Len(questions[c])], Calls)

\* mutant of Start: _ensure_document_processed is not awaited, the question
\* loop begins at once
Start_no_await(c, u, qs) ==
  /\ pc[c] = "idle"
  /\ \A d \in Calls : d < c => pc[d] # "idle"
  /\ Len(qs) + Asked <= MaxQuestions
  /\ url' = [url EXCEPT ![c] = u]
  /\ questions' = [questions EXCEPT ![c] = qs]
  /\ hit_at_start' = [hit_at_start EXCEPT ![c] = u \in DOMAIN document_cache]
  /\ prior' = [prior EXCEPT ![c] = {d \in Calls : pc[d] \in {"done", "cancelled"}}]
  /\ Resume(c, qs, <<>>, <<>>, answer_cache, answered)
  /\ UNCHANGED <<hashseed, direct, engine, stores, chunks, failure, ingest_steps>>

\* process_query is called: _ensure_document_processed tests the document
\* cache and either returns at once or suspends in the download
Start(c, u, qs) ==
  /\ pc[c] = "idle"
  /\ \A d \in Calls : d < c => pc[d] # "idle"
  /\ Len(qs) + Asked <= MaxQuestions
  /\ url' = [url EXCEPT ![c] = u]
  /\ questions' = [questions EXCEPT ![c] = qs]
  /\ hit_at_start' = [hit_at_start EXCEPT ![c] = u \in DOMAIN document_cache]
  /\ prior' = [prior EXCEPT ![c] = {d \in Calls : pc[d] \in {"done", "cancelled"}}]
  /\ IF document_cached(u)
       THEN /\ Resume(c, qs, <<>>, <<>>, answer_cache, answered)
            /\ UNCHANGED ingest_steps
       ELSE /\ pc' = [pc EXCEPT ![c] = "download"]
            /\ ingest_steps' = [ingest_steps EXCEPT ![c] = {"download"}]
            /\ UNCHANGED <<answers, history, result, attempt>>
  /\ UNCHANGED <<hashseed, direct, engine, stores, chunks, failure>>

\* the download fails: a status outside 200..299 or an announced size over the limit
DownloadFail(c, resp) ==
  /\ pc[c] = "download"
  /\ ~download_document(resp).ok
  /\ Fail(c, download_document(resp).error)
  /\ UNCHANGED <<engine, stores, inputs, ingest_steps>>

\* the download succeeds but the PDF extractor raises
ExtractFail(c, resp) ==
  /\ pc[c] = "download"
  /\ download_document(resp).ok
  /\ DocType(Filename(url[c])) = "pdf"
  /\ ingest_steps' = [ingest_steps EXCEPT ![c] = @ \cup {"extract"}]
  /\ Fail(c, "PDF extraction failed")
  /\ UNCHANGED <<engine, stores, inputs>>

\* the rest of process_document after the download: extract, clean, chunk;
\* then _ensure_document_processed suspends in the batch embedding request
DownloadDone(c, resp) ==
  /\ pc[c] = "download"
  /\ download_document(resp).ok
  /\ LET filename == Filename(url[c])
         metadata == [source_url |-> url[c],
                      document_type |-> DocType(filename),
                      filename |-> filename]
     IN chunks' = [chunks EXCEPT ![c] =
                     create_chunks(DocWords(url[c]), metadata)]
  /\ ingest_steps' = [ingest_steps EXCEPT ![c] = @ \cup {"extract", "chunk", "embed"}]
  /\ pc' = [pc EXCEPT ![c] = "embed_chunks"]
  /\ UNCHANGED <<engine, stores, inputs, answers, attempt, result, failure, history>>

\* the embeddings the embedding service returns for a batch of texts: one
\* vector per text, in order
get_embeddings(texts) == [i \in 1..Len(texts) |-> "vec"]

\* for chunk, embedding in zip(chunks, embeddings): chunk.embedding = embedding
assign_embeddings(chs, embeddings) ==
  [i \in 1..Len(chs) |->
     IF i <= Len(embeddings) THEN [chs[i] EXCEPT !.embedding = embeddings[i]]
                             ELSE chs[i]]

\* mutant of EmbedChunksDone: the URL is recorded in the document cache
\* before add_documents is awaited
EmbedChunksDone_record_early(c) ==
  /\ pc[c] = "embed_chunks"
  /\ LET chunk_texts == [i \in 1..Len(chunks[c]) |-> chunks[c][i].content]
     IN chunks' = [chunks EXCEPT ![c] =
                     assign_embeddings(@, get_embeddings(chunk_texts))]
  /\ ingest_steps' = [ingest_steps EXCEPT ![c] = @ \cup {"add"}]
  /\ pc' = [pc EXCEPT ![c] = "add"]
  /\ now' = now + 1
  /\ document_cache' = (url[c] :> [chunks |-> Len(chunks[c]), processed_at |-> now + 1])
                          @@ document_cache
  /\ UNCHANGED <<index, stores, inputs, answers, attempt, result, failure, history>>

\* the embeddings arrive and are assigned to the chunks; add_documents starts
EmbedChunksDone(c) ==
  /\ pc[c] = "embed_chunks"
  /\ LET chunk_texts == [i \in 1..Len(chunks[c]) |-> chunks[c][i].content]
     IN chunks' = [chunks EXCEPT ![c] =
                     assign_embeddings(@, get_embeddings(chunk_texts))]
  /\ ingest_steps' = [ingest_steps EXCEPT ![c] = @ \cup {"add"}]
  /\ pc' = [pc EXCEPT ![c] = "add"]
  /\ UNCHANGED <<engine, stores, inputs, answers, attempt, result, failure, history>>

\* the batch embedding request raises
EmbedChunksFail(c) ==
  /\ pc[c] = "embed_chunks"
  /\ Fail(c, "EmbeddingError")
  /\ UNCHANGED <<engine, stores, inputs, ingest_steps>>

\* the vector store takes the chunks in
IndexAdd(c) ==
  /\ pc[c] = "add"
  /\ index' = index \o chunks[c]
  /\ pc' = [pc EXCEPT ![c] = "add_done"]
  /\ UNCHANGED <<document_cache, now, stores, inputs, chunks, answers,
                 attempt, result, ingest_steps, failure, history>>

\* add_documents raises
IndexAddFail(c) ==
  /\ pc[c] = "add"
  /\ Fail(c, "VectorStoreError")
  /\ UNCHANGED <<engine, stores, inputs, ingest_steps>>

\* the entry _ensure_document_processed writes
cache_entry(n, t) == [chunks |-> n, processed_at |-> t]

\* the document cache after document_url is recorded
cache_document(u, entry) == (u :> entry) @@ document_cache

\* time.time(): a reading later than every earlier one
time_time == now + 1

\* add_documents returns: the URL is recorded in the document cache, with
\* the time read from the clock, and the question loop begins
AddReturn(c) ==
  /\ pc[c] = "add_done"
  /\ now' = time_time
  /\ document_cache' = cache_document(url[c], cache_entry(Len(chunks[c]), time_time))
  /\ chunks' = [chunks EXCEPT ![c] = <<>>]
  /\ ingest_steps' = [ingest_steps EXCEPT ![c] = @ \cup {"record"}]
  /\ Resume(c, questions[c], <<>>, <<>>, answer_cache, answered)
  /\ UNCHANGED <<index, stores, inputs, failure>>

(* ------------------------ _process_single_question --------------------- *)

\* the question call c is answering
Question(c) == questions[c][Len(answers[c]) + 1]

\* mutant of store_answer: the answer is not kept
store_answer_forget(cache_key, answer) == answer_cache

\* the answer cache after self.answer_cache[cache_key] = answer
store_answer(cache_key, answer) == (cache_key :> answer) @@ answer_cache

\* mutant of error_answer: the sentinel of the missing answer field
error_answer_sentinel(e) == "Unable to generate answer"

\* the except branch of _process_single_question
error_answer(e) == "Error: " \o e

\* mutant of Resolve: the answer is inserted at the front of the answer list
Resolve_prepend(c, answer, src, backends, store) ==
  LET cache_key == hash(Question(c))
      cache == IF store THEN store_answer(cache_key, answer) ELSE answer_cache
  IN /\ answer_cache' = cache
     /\ stored_for' = IF store THEN [stored_for EXCEPT ![cache_key] = Question(c)]
                                ELSE stored_for
     /\ overwritten' = IF store /\ cache_key \in DOMAIN answer_cache
                          THEN [overwritten EXCEPT ![cache_key] = TRUE]
                          ELSE overwritten
     /\ stored_url' = IF store THEN [stored_url EXCEPT ![cache_key] = url[c]]
                                ELSE stored_url
     /\ Resume(c, questions[c], <<answer>> \o answers[c],
               Append(trace[c], Entry(Question(c), answer, src, backends,
                                      earlier[c])),
               cache,
               [answered EXCEPT ![Question(c)] = @ \cup {Returned(answer, src)}])

\* Call c resolves its current question to answer through the backends named
\* and, when store is set, stores it in the answer cache; the question loop
\* goes on.
Resolve(c, answer, src, backends, store) ==
  LET cache_key == hash(Question(c))
      cache == IF store THEN store_answer(cache_key, answer) ELSE answer_cache
  IN /\ answer_cache' = cache
     /\ stored_for' = IF store THEN [stored_for EXCEPT ![cache_key] = Question(c)]
                                ELSE stored_for
     /\ overwritten' = IF store /\ cache_key \in DOMAIN answer_cache
                          THEN [overwritten EXCEPT ![cache_key] = TRUE]
                          ELSE overwritten
     /\ stored_url' = IF store THEN [stored_url EXCEPT ![cache_key] = url[c]]
                                ELSE stored_url
     /\ Resume(c, questions[c], Append(answers[c], answer),
               Append(trace[c], Entry(Question(c), answer, src, backends,
                                      earlier[c])),
               cache,
               [answered EXCEPT ![Question(c)] = @ \cup {Returned(answer, src)}])

\* the question's embedding arrives; the index search starts
QEmbedDone(c) ==
  /\ pc[c] = "q_embed"
  /\ pc' = [pc EXCEPT ![c] = "q_search"]
  /\ UNCHANGED <<engine, stores, inputs, chunks, answers, attempt, result,
                 ingest_steps, failure, history>>

\* the embedding request raises
QEmbedFail(c) ==
  /\ pc[c] = "q_embed"
  /\ Resolve(c, error_answer("EmbeddingError"), "error", {"embed"}, FALSE)
  /\ UNCHANGED <<engine, inputs, chunks, ingest_steps, failure>>

\* mutant of QSearchEmpty: the sentinel is returned without being cached
QSearchEmpty_uncached(c) ==
  /\ pc[c] = "q_search"
  /\ Resolve(c, "Information not available in the document", "empty",
             {"embed", "search"}, FALSE)
  /\ UNCHANGED <<engine, inputs, chunks, ingest_steps, failure>>

\* mutant of QSearchEmpty: the empty result list is handed to the generator
\* all the same and its answer is taken
QSearchEmpty_generate(c) ==
  /\ pc[c] = "q_search"
  /\ Resolve(c, "a1", "empty", {"embed", "search", "generate"}, TRUE)
  /\ UNCHANGED <<engine, inputs, chunks, ingest_steps, failure>>

\* the search returns no results: the sentinel is the answer and is cached
QSearchEmpty(c) ==
  /\ pc[c] = "q_search"
  /\ Resolve(c, "Information not available in the document", "empty",
             {"embed", "search"}, TRUE)
  /\ UNCHANGED <<engine, inputs, chunks, ingest_steps, failure>>

\* the search returns 1..top_k results (never more than the index holds):
\* generate_answer starts its first attempt
QSearchFound(c) ==
  /\ pc[c] = "q_search"
  /\ Min(TOP_K, Len(index)) >= 1
  /\ pc' = [pc EXCEPT ![c] = "q_gen"]
  /\ attempt' = [attempt EXCEPT ![c] = 1]
  /\ UNCHANGED <<engine, stores, inputs, chunks, answers, result, ingest_steps,
                 failure, history>>

\* mutant of QSearchFail: the exception leaves _process_single_question and
\* reaches the except branch of process_query
QSearchFail_propagate(c) ==
  /\ pc[c] = "q_search"
  /\ Fail(c, "VectorStoreError")
  /\ UNCHANGED <<engine, stores, inputs, ingest_steps>>

\* the search raises
QSearchFail(c) ==
  /\ pc[c] = "q_search"
  /\ Resolve(c, error_answer("VectorStoreError"), "error", {"embed", "search"}, FALSE)
  /\ UNCHANGED <<engine, inputs, chunks, ingest_steps, failure>>

\* an attempt of generate_answer gets a completion: the answer is taken from
\* the parsed response and cached
GenerateDone(c, completion) ==
  /\ pc[c] = "q_gen"
  /\ Resolve(c, get_answer(parse_response(completion)), "generated",
             {"embed", "search", "generate"}, TRUE)
  /\ UNCHANGED <<engine, inputs, chunks, ingest_steps, failure>>

\* may the retry decorator of generate_answer start another attempt
may_retry(n) == n < MaxAttempts

\* an attempt of generate_answer raises and the decorator retries: the call
\* enters the decorator's wait (asyncio.sleep of wait_exponential), with no
\* request in flight
GenerateRetry(c) ==
  /\ pc[c] = "q_gen"
  /\ may_retry(attempt[c])
  /\ pc' = [pc EXCEPT ![c] = "q_wait"]
  /\ UNCHANGED <<engine, stores, inputs, attempt, chunks, answers, result,
                 ingest_steps, failure, history>>

\* the decorator's wait is over: the next attempt of generate_answer sends
\* its request
RetryWaitOver(c) ==
  /\ pc[c] = "q_wait"
  /\ pc' = [pc EXCEPT ![c] = "q_gen"]
  /\ attempt' = [attempt EXCEPT ![c] = @ + 1]
  /\ UNCHANGED <<engine, stores, inputs, chunks, answers, result,
                 ingest_steps, failure, history>>

\* the last attempt raises: the decorator raises RetryError, which the
\* except branch of _process_single_question turns into the answer
GenerateExhausted(c) ==
  /\ pc[c] = "q_gen"
  /\ ~may_retry(attempt[c])
  /\ Resolve(c, error_answer("RetryError"), "error",
             {"embed", "search", "generate"}, FALSE)
  /\ UNCHANGED <<engine, inputs, chunks, ingest_steps, failure>>

(* ----------------------------- cancellation ---------------------------- *)

AwaitStates == {"download", "embed_chunks", "add", "add_done",
                "q_embed", "q_search", "q_gen", "q_wait"}

\* the serving boundary cancels the request: CancelledError is raised at the
\* await the call is suspended at; it is no Exception, so neither except
\* branch catches it: process_query returns nothing and its locals are gone
Cancel(c) ==
  /\ pc[c] \in AwaitStates
  /\ pc' = [pc EXCEPT ![c] = "cancelled"]
  /\ chunks' = [chunks EXCEPT ![c] = <<>>]
  /\ answers' = [answers EXCEPT ![c] = <<>>]
  /\ attempt' = [attempt EXCEPT ![c] = 0]
  /\ trace' = [trace EXCEPT ![c] = <<>>]
  /\ earlier' = [earlier EXCEPT ![c] = {}]
  /\ UNCHANGED <<engine, stores, inputs, result, ingest_steps, failure, answered>>

(* ---------------------------- specification ---------------------------- *)

Next ==
  \/ \E c \in Calls, u \in URLs, qs \in QuestionLists : Start(c, u, qs)
  \/ \E c \in Calls : \E resp \in Responses : DownloadFail(c, resp)
  \/ \E c \in Calls : \E resp \in Responses : ExtractFail(c, resp)
  \/ \E c \in Calls : \E resp \in Responses : DownloadDone(c, resp)
  \/ \E c \in Calls : EmbedChunksDone(c)
  \/ \E c \in Calls : EmbedChunksFail(c)
  \/ \E c \in Calls : IndexAdd(c)
  \/ \E c \in Calls : IndexAddFail(c)
  \/ \E c \in Calls : AddReturn(c)
  \/ \E c \in Calls : QEmbedDone(c)
  \/ \E c \in Calls : QEmbedFail(c)
  \/ \E c \in Calls : QSearchEmpty(c)
  \/ \E c \in Calls : QSearchFound(c)
  \/ \E c \in Calls : QSearchFail(c)
  \/ \E c \in Calls : \E completion \in Completions : GenerateDone(c, completion)
  \/ \E c \in Calls : GenerateRetry(c)
  \/ \E c \in Calls : RetryWaitOver(c)
  \/ \E c \in Calls : GenerateExhausted(c)
  \/ \E c \in Calls : Cancel(c)

Spec == Init /\ [][Next]_vars

\* the scheduling the code gives: the wait between two attempts of
\* generate_answer is an asyncio.sleep of at most 20 s (wait_exponential,
\* max=20), so it ends and the event loop resumes the call. A backend request
\* has no such bound: the timeout of httpx.AsyncClient limits each read of
\* the response, not the request, so a request whose server keeps sending
\* may stay in flight for ever, and no fairness is assumed for it
FairSpec == Spec /\ \A c \in Calls : WF_vars(RetryWaitOver(c))

(* --------------- direct calls of DocumentProcessor methods ------------- *)
\* create_chunks and download_document called on their own, on any text,
\* chunking configuration and HTTP response within the bounds

\* the longest text, in words, and the largest chunk_size
MaxWords == 12
MaxChunkSize == 4

\* the ceiling on the chunks of one document that the design asks for
MAX_CHUNKS == 10

\* the (chunk_size, chunk_overlap) settings: the step of the window,
\* chunk_size - chunk_overlap, is positive
ChunkSettings ==
  {p \in (1..MaxChunkSize) \X (0..MaxChunkSize) : p[2] < p[1]}

\* the metadata mappings create_chunks is called with: those process_document,
\* its only caller, builds for a URL
Metadatas ==
  {[source_url |-> u, document_type |-> DocType(Filename(u)),
    filename |-> Filename(u)] : u \in URLs}

ChunkArgs ==
  {[method |-> "create_chunks", words |-> [i \in 1..n |-> i], metadata |-> m,
    chunk_size |-> p[1], chunk_overlap |-> p[2]] :
     n \in 0..MaxWords, m \in Metadatas, p \in ChunkSettings}

\* the responses a server may give: those of Responses, and bodies over the
\* limit sent without a content-length header or with one that understates
\* them, and a small body without the header
DirectResponses ==
  Responses \cup
  { [status |-> 200, has_length |-> FALSE, content_length |-> 0,
     size |-> max_file_size_bytes + 1],
    [status |-> 200, has_length |-> TRUE, content_length |-> 4096,
     size |-> max_file_size_bytes + 1],
    [status |-> 200, has_length |-> FALSE, content_length |-> 0, size |-> 4096] }

DownloadArgs ==
  {[method |-> "download_document", resp |-> r] : r \in DirectResponses}

DirectInit ==
  /\ EngineInit
  /\ arg \in ChunkArgs \cup DownloadArgs
  /\ ret = [returned |-> FALSE]

\* create_chunks runs on the text, with the settings of the processor
CreateChunks ==
  /\ arg.method = "create_chunks"
  /\ ~ret.returned
  /\ ret' = [returned |-> TRUE,
             value |-> create_chunks_with(arg.words, arg.metadata,
                                          arg.chunk_size, arg.chunk_overlap)]
  /\ UNCHANGED <<arg, hashseed, engine, stores, pc, url, questions, chunks,
                 answers, attempt, result, ingest_steps, failure,
                 hit_at_start, prior, history>>

\* download_document runs and gets the response
DownloadDocument ==
  /\ arg.method = "download_document"
  /\ ~ret.returned
  /\ ret' = [returned |-> TRUE, value |-> download_document(arg.resp)]
  /\ UNCHANGED <<arg, hashseed, engine, stores, pc, url, questions, chunks,
                 answers, attempt, result, ingest_steps, failure,
                 hit_at_start, prior, history>>

DirectNext == CreateChunks \/ DownloadDocument

DirectSpec == DirectInit /\ [][DirectNext]_vars

(* ------------------------------- claims -------------------------------- *)

\* the ingestion of call c's URL was found done, or was completed by c
IngestOK(c) == hit_at_start[c] \/ "record" \in ingest_steps[c]

\* calls c and d were in flight at the same time
Overlap(c, d) == c # d /\ pc[c] # "idle" /\ pc[d] # "idle"
                 /\ c \notin prior[d] /\ d \notin prior[c]

\* the chunks process_document makes of the document at u
DocChunks(u) ==
  create_chunks(DocWords(u), [source_url |-> u,
                              document_type |-> DocType(Filename(u)),
                              filename |-> Filename(u)])

\* C1: a returned call gives one answer per question, position i holding the
\* answer produced for question i: the fallback string when the ingestion
\* failed, else what _process_single_question resolved for questions[i].
C1_OneAnswerPerQuestion ==
  \A c \in Calls : pc[c] = "done" =>
    /\ Len(result[c]) = Len(questions[c])
    /\ IF IngestOK(c)
         THEN /\ Len(trace[c]) = Len(questions[c])
              /\ \A i \in 1..Len(questions[c]) :
                   /\ trace[c][i].q = questions[c][i]
                   /\ result[c][i] = trace[c][i].answer
         ELSE \A i \in 1..Len(questions[c]) :
                result[c][i] = "Error processing question: " \o failure[c]

\* a call asked two questions and returned two different answers for them
C1_Witness ==
  \E c \in Calls : /\ pc[c] = "done" /\ IngestOK(c)
                   /\ Len(questions[c]) = 2
                   /\ result[c][1] # result[c][2]
                   /\ trace[c][2].src # "cache"

\* C2: of two process_query calls in flight together for the same URL that
\* neither found in the document cache, only one downloads, only one embeds
\* the chunks, and the index holds no chunk of the document twice.
C2_SingleIngestion ==
  /\ \A c, d \in Calls :
       (Overlap(c, d) /\ url[c] = url[d] /\ ~hit_at_start[c] /\ ~hit_at_start[d])
         => /\ ~("download" \in ingest_steps[c] /\ "download" \in ingest_steps[d])
            /\ ~("embed" \in ingest_steps[c] /\ "embed" \in ingest_steps[d])
  /\ \A i, j \in 1..Len(index) :
       (/\ index[i].metadata.source_url = index[j].metadata.source_url
        /\ index[i].metadata.chunk_index = index[j].metadata.chunk_index) => i = j

\* C3: a URL in the document cache was recorded by an ingestion that went
\* through every step without failing, its entry counts the chunks of the
\* document, and each of them is in the index with its embedding.
C3_CachedImpliesIndexed ==
  \A u \in DOMAIN document_cache :
    /\ \E c \in Calls : /\ url[c] = u /\ failure[c] = None
                        /\ {"download", "extract", "chunk", "embed", "add", "record"}
                             \subseteq ingest_steps[c]
    /\ LET expected == DocChunks(u)
           indexed == {index[j] : j \in 1..Len(index)}
       IN /\ document_cache[u].chunks = Len(expected)
          /\ \A i \in 1..Len(expected) :
               [expected[i] EXCEPT !.embedding = "vec"] \in indexed

\* the three chunks of the PDF are indexed and its URL is cached, while the
\* ingestion of the other URL failed in add_documents and left it uncached
C3_Witness ==
  /\ "http://h/policy.pdf" \in DOMAIN document_cache
  /\ document_cache["http://h/policy.pdf"].chunks = 3
  /\ Len(index) >= 3
  /\ \E c \in Calls : /\ failure[c] = "VectorStoreError"
                      /\ url[c] \notin DOMAIN document_cache

\* C4: a call that finds its URL in the document cache performs no step of
\* the ingestion, and a call that begins after a call that completed the
\* ingestion of the same URL has ended finds the URL in the cache.
C4_NoReingestion ==
  \A d \in Calls :
    /\ hit_at_start[d] =>
         /\ ingest_steps[d] = {}
         /\ pc[d] \in {"q_embed", "q_search", "q_gen", "q_wait", "done", "cancelled"}
    /\ \A c \in prior[d] :
         (url[c] = url[d] /\ "record" \in ingest_steps[c]) => hit_at_start[d]

\* a call has returned its answers for a URL ingested by an earlier call
C4_Witness ==
  \E d \in Calls : \E c \in prior[d] :
    /\ url[c] = url[d] /\ "record" \in ingest_steps[c]
    /\ pc[d] = "done" /\ ingest_steps[d] = {}

\* C5: a call whose ingestion raised has returned, with one fallback error
\* string per question.
C5_IngestionFailureFallback ==
  \A c \in Calls : failure[c] # None =>
    /\ pc[c] = "done"
    /\ Len(result[c]) = Len(questions[c])
    /\ \A i \in 1..Len(result[c]) :
         result[c][i] = "Error processing question: " \o failure[c]

\* the embedding of the chunks raised in a call that asked two questions
C5_Witness ==
  \E c \in Calls : /\ failure[c] = "EmbeddingError"
                   /\ Len(questions[c]) = 2
                   /\ Len(result[c]) = 2

\* the strings the except branch of _process_single_question returns
ErrorAnswers == {error_answer("EmbeddingError"), error_answer("VectorStoreError"),
                 error_answer("RetryError")}

\* position i of call c was resolved by the except branch after the retries
\* of generate_answer were used up
Exhausted(c, i) ==
  trace[c][i].src = "error" /\ "generate" \in trace[c][i].backends

\* the question at position i of call c was asked again: the call of
\* _process_single_question for it began after a call of it for the same
\* question string, by this or any other process_query call, had returned e
Again(c, i, e) ==
  /\ i \in 1..Len(trace[c])
  /\ e \in trace[c][i].earlier

\* C6: an exception of a backend while a question is answered never reaches
\* process_query: a call whose ingestion succeeded returns one answer per
\* question, an "Error: ..." string at each failed position and the resolved
\* answer at every other one.
C6_QuestionFailureContained ==
  \A c \in Calls :
    /\ IngestOK(c) => failure[c] = None
    /\ (pc[c] = "done" /\ IngestOK(c)) =>
         /\ Len(result[c]) = Len(questions[c])
         /\ Len(trace[c]) = Len(questions[c])
         /\ \A i \in 1..Len(questions[c]) :
              IF trace[c][i].src = "error"
                THEN result[c][i] \in ErrorAnswers
                ELSE /\ result[c][i] = trace[c][i].answer
                     /\ result[c][i] \notin ErrorAnswers

\* a call returned an error string for its first question and an answer of
\* the generator for its second
C6_Witness ==
  \E c \in Calls : /\ pc[c] = "done" /\ Len(trace[c]) = 2
                   /\ trace[c][1].src = "error"
                   /\ trace[c][2].src = "generated"
                   /\ result[c][2] = "a1"

\* C7 as stated: a question whose generator retries were used up is answered
\* "Unable to generate answer".
C7_ExhaustedGivesSentinel ==
  \A c \in Calls : \A i \in 1..Len(trace[c]) :
    Exhausted(c, i) => trace[c][i].answer = "Unable to generate answer"

\* C7 amended: a question whose generator retries were used up is answered
\* "Error: " followed by the text of the RetryError, and that string is what
\* the call returns at the question's position.
C7_ExhaustedGivesError ==
  \A c \in Calls : \A i \in 1..Len(trace[c]) :
    Exhausted(c, i) =>
      /\ trace[c][i].answer = "Error: RetryError"
      /\ pc[c] = "done" => result[c][i] = "Error: RetryError"

\* a call returned after the retries of one of its questions were used up
C7_Witness ==
  \E c \in Calls : \E i \in 1..Len(trace[c]) : Exhausted(c, i) /\ pc[c] = "done"

C9_EveryAnswerStored ==
  \A c \in Calls : \A i \in 1..Len(trace[c]) :
    LET cache_key == hash(trace[c][i].q)
    IN /\ cache_key \in DOMAIN answer_cache
       /\ \/ answer_cache[cache_key] = trace[c][i].answer
          \/ overwritten[cache_key]

\* C9 amended: every answer returned otherwise than by the except branch is
\* in the answer cache under the hash of its question (until another call,
\* which had missed the cache earlier, stores its answer over it); the
\* "Error: ..." strings of the except branch are never stored.
C9_ResolvedAnswerStored ==
  /\ \A c \in Calls : \A i \in 1..Len(trace[c]) :
       trace[c][i].src # "error" =>
         LET cache_key == hash(trace[c][i].q)
         IN /\ cache_key \in DOMAIN answer_cache
            /\ \/ answer_cache[cache_key] = trace[c][i].answer
               \/ overwritten[cache_key]
  /\ \A k \in DOMAIN answer_cache : answer_cache[k] \notin ErrorAnswers

\* the sentinel of the empty search was returned and is in the cache, and an
\* error string was returned for a question whose key is not in the cache
C9_Witness ==
  /\ \E c \in Calls : \E i \in 1..Len(trace[c]) :
       /\ trace[c][i].src = "empty"
       /\ answer_cache[hash(trace[c][i].q)] = "Information not available in the document"
  /\ \E c \in Calls : \E i \in 1..Len(trace[c]) :
       /\ Exhausted(c, i)
       /\ hash(trace[c][i].q) \notin DOMAIN answer_cache

\* C10: an answer taken from the answer cache for a question was stored for
\* exactly that question string.
C10_ExactStringKey ==
  \A c \in Calls : \A i \in 1..Len(trace[c]) :
    trace[c][i].src = "cache" => stored_for[hash(trace[c][i].q)] = trace[c][i].q

\* C11: a question whose index search returned no results is answered
\* "Information not available in the document", without a call of the
\* generator, and that is what the call returns at the question's position.
C11_EmptySearchSentinel ==
  \A c \in Calls : \A i \in 1..Len(trace[c]) :
    trace[c][i].src = "empty" =>
      /\ trace[c][i].answer = "Information not available in the document"
      /\ "generate" \notin trace[c][i].backends
      /\ pc[c] = "done" => result[c][i] = "Information not available in the document"

\* a call has returned the sentinel for a question whose search, in an
\* index that holds chunks, returned nothing
C11_Witness ==
  \E c \in Calls : \E i \in 1..Len(trace[c]) :
    /\ trace[c][i].src = "empty" /\ pc[c] = "done" /\ index # <<>>
    /\ result[c][i] = "Information not available in the document"

\* the awaits of the ingestion and those of a question's backends
IngestStates == {"download", "embed_chunks", "add", "add_done"}
QuestionStates == {"q_embed", "q_search", "q_gen", "q_wait"}

\* C12: the questions of a call are handled one after another: while a
\* question is being handled (a backend call in flight for it, or the wait
\* between two attempts of the generator), the ingestion step of the call
\* has returned and every earlier question, and no later one, has its answer;
\* while the ingestion is in flight no question has been handled.
C12_QuestionsInSequence ==
  \A c \in Calls :
    /\ pc[c] \in QuestionStates =>
         /\ IngestOK(c)
         /\ Len(answers[c]) < Len(questions[c])
         /\ Len(trace[c]) = Len(answers[c])
    /\ pc[c] \in IngestStates => answers[c] = <<>> /\ trace[c] = <<>>
    /\ \A i \in 1..Len(trace[c]) : trace[c][i].q = questions[c][i]

\* the embedding request of a call's second question is in flight, after
\* the call ingested its document and got its first answer from the generator
C12_Witness ==
  \E c \in Calls :
    /\ pc[c] = "q_embed" /\ "record" \in ingest_steps[c]
    /\ Len(questions[c]) = 2 /\ Len(answers[c]) = 1
    /\ trace[c][1].src = "generated"

\* what a step may do to call c while an attempt of generate_answer is in
\* flight for it, or while it waits between two attempts: nothing; a retry,
\* in its two halves (the failed attempt, not the last, begins the wait and
\* changes nothing else; the end of the wait begins one more attempt and
\* changes nothing else); the resolution of the question, by an attempt in
\* flight only; or the cancellation of the call
C13_Step(c) ==
  /\ pc[c] = "q_gen" =>
       \/ /\ pc'[c] = "q_gen" /\ attempt'[c] = attempt[c]
          /\ answers'[c] = answers[c] /\ trace'[c] = trace[c]
       \/ /\ pc'[c] = "q_wait" /\ attempt'[c] = attempt[c]
          /\ attempt[c] < MaxAttempts
          /\ answers'[c] = answers[c] /\ trace'[c] = trace[c]
          /\ ingest_steps'[c] = ingest_steps[c]
          /\ index' = index /\ document_cache' = document_cache
          /\ answer_cache' = answer_cache
       \/ /\ Len(trace'[c]) > Len(trace[c])
          /\ LET e == trace'[c][Len(trace[c]) + 1]
             IN /\ e.q = Question(c)
                /\ e.src \in {"generated", "error"}
                /\ e.src = "error" =>
                     attempt[c] = MaxAttempts /\ e.answer \in ErrorAnswers
       \/ pc'[c] = "cancelled"
  /\ pc[c] = "q_wait" =>
       \/ /\ pc'[c] = "q_wait" /\ attempt'[c] = attempt[c]
          /\ answers'[c] = answers[c] /\ trace'[c] = trace[c]
       \/ /\ pc'[c] = "q_gen" /\ attempt'[c] = attempt[c] + 1
          /\ answers'[c] = answers[c] /\ trace'[c] = trace[c]
          /\ ingest_steps'[c] = ingest_steps[c]
          /\ index' = index /\ document_cache' = document_cache
          /\ answer_cache' = answer_cache
       \/ pc'[c] = "cancelled"

\* the attempts of generate_answer for a question are counted from 1 to 5,
\* and the wait between two attempts follows an attempt that is not the last
C13_Attempts ==
  \A c \in Calls : /\ attempt[c] <= MaxAttempts
                    /\ pc[c] \in {"q_gen", "q_wait"} <=> attempt[c] >= 1
                    /\ pc[c] = "q_wait" => attempt[c] < MaxAttempts

\* C13: generate_answer is attempted at most 5 times for a question; a
\* retry is one more attempt of the generator and no other backend call or
\* ingestion step; a failure of the last attempt resolves the question to an
\* error answer; and a question whose generator call has begun is eventually
\* resolved (to an answer or to the error answer) unless the call is
\* cancelled.
C13_BoundedRetry ==
  /\ []C13_Attempts
  /\ [][\A c \in Calls : C13_Step(c)]_vars
  /\ \A c \in Calls :
       (pc[c] \in {"q_gen", "q_wait"}) ~> (pc[c] \notin {"q_gen", "q_wait"})

\* C14: a URL recorded in the document cache stays recorded, and no step
\* changes its entry (chunk count, processed_at).
C14_EntryNeverRewritten ==
  [][\A u \in DOMAIN document_cache :
       /\ u \in DOMAIN document_cache'
       /\ document_cache'[u] = document_cache[u]]_vars

\* C15: a document whose cleaned text is empty (shorter than any minimum
\* length) is never recorded in the document cache, none of its calls gets
\* through the ingestion, and a call that has returned for it has returned
\* one fallback answer per question.
C15_ShortTextRejected ==
  \A u \in URLs :
    DocLen(u) = 0 =>
      /\ u \notin DOMAIN document_cache
      /\ \A c \in Calls :
           url[c] = u =>
             /\ "add" \notin ingest_steps[c]
             /\ pc[c] = "done" =>
                  /\ failure[c] # None
                  /\ result[c] = fallback_answers(questions[c], failure[c])

\* ceil(a / b)
Ceil(a, b) == (a + b - 1) \div b

\* the contents of the chunks, one after another
RECURSIVE Flatten(_)
Flatten(chs) ==
  IF chs = <<>> THEN <<>> ELSE Head(chs).content \o Flatten(Tail(chs))

\* create_chunks was called directly and has returned
Chunked == arg.method = "create_chunks" /\ ret.returned

\* C16: without overlap, a text of L words is cut into ceil(L / chunk_size)
\* chunks, at most the ceiling, and the contents of the chunks, in order, are
\* the words of the text (of its part within the ceiling).
C16_NoOverlapPartition ==
  (Chunked /\ arg.chunk_overlap = 0) =>
    LET L == Len(arg.words)
        n == Min(Ceil(L, arg.chunk_size), MAX_CHUNKS)
    IN /\ Len(ret.value) = n
       /\ Flatten(ret.value) = SubSeq(arg.words, 1, Min(L, n * arg.chunk_size))

\* C17: create_chunks returns at most the ceiling of chunks, whatever the
\* text.
C17_ChunkCeiling ==
  Chunked => Len(ret.value) <= MAX_CHUNKS

\* the call is between process_document and the cache record: its chunks
\* are those process_document returned
HoldsChunks(c) == pc[c] \in {"embed_chunks", "add", "add_done"}

\* the chunks of an 850-word document number 3, with chunk_index 0, 1, 2,
\* the last one of last words; the cache entry of its URL records 3 chunks
Scenario850(last) ==
  /\ \A c \in Calls :
       (HoldsChunks(c) /\ DocLen(url[c]) = 850) =>
         /\ Len(chunks[c]) = 3
         /\ \A i \in 1..3 : chunks[c][i].metadata.chunk_index = i - 1
         /\ Len(chunks[c][3].content) = last
  /\ \A u \in DOMAIN document_cache :
       DocLen(u) = 850 => document_cache[u].chunks = 3

\* C18 as stated: at 400 words per chunk the 850-word document is ingested
\* as 3 chunks, chunk_index 0, 1, 2, the last holding 50 words, and its
\* cache entry records 3 chunks.
C18_LastChunk50 == Scenario850(50)

\* C18 amended: at 400 words per chunk and the configured overlap of 50 the
\* 850-word document is ingested as 3 chunks, chunk_index 0, 1, 2, the last
\* holding 150 words (words 700 to 850: the window advances by 350 words),
\* and its cache entry records 3 chunks.
C18_LastChunk150 ==
  /\ Scenario850(150)
  /\ \A c \in Calls :
       (HoldsChunks(c) /\ DocLen(url[c]) = 850) =>
         /\ chunks[c][3].metadata.start_word = 700
         /\ chunks[c][3].metadata.end_word = 850

\* the 850-word document has been ingested and recorded, and its third chunk
\* is in the index
C18_Witness ==
  /\ \E u \in DOMAIN document_cache : DocLen(u) = 850 /\ document_cache[u].chunks = 3
  /\ \E j \in 1..Len(index) : /\ index[j].metadata.chunk_index = 2
                               /\ Len(index[j].content) = 150

\* C19: the chunks create_chunks returns carry chunk_index 0, 1, ..., n-1 in
\* emission order, every chunk has content, and every chunk's metadata has
\* all caller-supplied keys with the caller's values.
C19_MetadataUnchanged ==
  Chunked =>
    \A i \in 1..Len(ret.value) :
      LET chunk == ret.value[i]
      IN /\ chunk.metadata.chunk_index = i - 1
         /\ chunk.content # <<>>
         /\ \A k \in DOMAIN arg.metadata :
              /\ k \in DOMAIN chunk.metadata
              /\ chunk.metadata[k] = arg.metadata[k]

\* create_chunks returned several chunks for the metadata of a PDF document,
\* and the third has the caller's keys and chunk_index 2
C19_Witness ==
  /\ Chunked /\ Len(ret.value) >= 3
  /\ arg.metadata.document_type = "pdf"
  /\ ret.value[3].metadata.source_url = arg.metadata.source_url
  /\ ret.value[3].metadata.filename = "policy.pdf"
  /\ ret.value[3].metadata.chunk_index = 2

\* C20: a body download_document returns is no larger than the configured
\* maximum, whatever the content-length header of the response says.
C20_BodyWithinLimit ==
  (arg.method = "download_document" /\ ret.returned /\ ret.value.ok) =>
    ret.value.size <= max_file_size_bytes

\* C21: an answer a call takes from the answer cache was stored there by a
\* call for the same document URL (it was resolved from a search of the index
\* that held the chunks of that URL), and an answer resolved by a search was
\* resolved after the ingestion of the call's URL.
C21_AnswerFromOwnDocument ==
  [][\A c \in Calls :
       \A i \in (Len(trace[c]) + 1)..Len(trace'[c]) :
         LET e == trace'[c][i]
         IN /\ e.src = "cache" => stored_url'[hash(e.q)] = url'[c]
            /\ e.src \in {"generated", "empty"} =>
                 url'[c] \in DOMAIN document_cache']_vars

\* call d began after call c had ended, for the same URL, which no third
\* call has recorded in the document cache
LaterSameURL(c, d) ==
  /\ c \in prior[d] /\ url[d] = url[c]
  /\ \A o \in Calls \ {c, d} : url[o] = url[c] => "record" \notin ingest_steps[o]

\* C22: a call whose ingestion failed has returned without handling a
\* question and without recording its URL; no step a call takes inside an
\* ingestion that it does not complete changes the document cache or the
\* answer cache; and a later call with the same URL does not find it cached
\* and starts the ingestion again, from the download.
C22_FailedIngestionNoEffect ==
  /\ [](\A c \in Calls :
          failure[c] # None =>
            /\ pc[c] = "done" /\ answers[c] = <<>> /\ trace[c] = <<>>
            /\ "record" \notin ingest_steps[c]
            /\ \A d \in Calls :
                 LaterSameURL(c, d) =>
                   /\ ~hit_at_start[d]
                   /\ "download" \in ingest_steps[d])
  /\ [][\A c \in Calls :
          (pc[c] \in IngestStates /\ pc'[c] # pc[c] /\ "record" \notin ingest_steps'[c]) =>
            /\ document_cache' = document_cache
            /\ answer_cache' = answer_cache]_vars

\* the ingestion of a call failed in add_documents, after the embedding of
\* the chunks, and a later call with the same URL has ingested the document
C22_Witness ==
  \E c, d \in Calls :
    /\ failure[c] = "VectorStoreError" /\ LaterSameURL(c, d)
    /\ "record" \in ingest_steps[d]
    /\ url[c] \in DOMAIN document_cache

\* the word range of the k-th chunk returned: the words after start_word up
\* to end_word
StartWord(k) == ret.value[k].metadata.start_word
EndWord(k) == ret.value[k].metadata.end_word

\* the range of the k-th chunk lies within that of the chunk before it
Contained(k) == StartWord(k) >= StartWord(k - 1) /\ EndWord(k) <= EndWord(k - 1)

\* chunk k (counted from 0) starts at k * (chunk_size - chunk_overlap), ends
\* chunk_size words on or at the end of the text, and holds the words of that
\* range; every word of the text is in some chunk
WindowRanges ==
  LET L == Len(arg.words)
      step == arg.chunk_size - arg.chunk_overlap
  IN /\ \A k \in 1..Len(ret.value) :
          /\ StartWord(k) = (k - 1) * step
          /\ EndWord(k) = Min(StartWord(k) + arg.chunk_size, L)
          /\ ret.value[k].content = SubSeq(arg.words, StartWord(k) + 1, EndWord(k))
     /\ \A w \in 1..L :
          \E k \in 1..Len(ret.value) : StartWord(k) < w /\ w <= EndWord(k)

\* C23 as stated: the chunks have the ranges of the advancing window, cover
\* the text, and none has its range within the range of the chunk before it.
C23_NoChunkContained ==
  Chunked =>
    /\ WindowRanges
    /\ \A k \in 2..Len(ret.value) : ~Contained(k)

\* C23 amended: the chunks have the ranges of the advancing window and cover
\* the text; a chunk has its range within the range of the chunk before it
\* exactly when that chunk already ends at the end of the text.
C23_TailChunksContained ==
  Chunked =>
    /\ WindowRanges
    /\ \A k \in 2..Len(ret.value) :
         Contained(k) <=> EndWord(k - 1) = Len(arg.words)

\* create_chunks, with overlap, returned three chunks or more, the last one
\* within the range of the one before it, the one before that not
C23_Witness ==
  /\ Chunked /\ arg.chunk_overlap > 0 /\ Len(ret.value) >= 3
  /\ Contained(Len(ret.value))
  /\ ~Contained(Len(ret.value) - 1)

====
